---- MODULE Spec2Model ----
(***************************************************************************)
(* The graframe query builder (src/graframe/query_graph.py, query.py) as a *)
(* state machine over a Python-like object heap.                           *)
(*                                                                         *)
(* Every dict and list the code builds is an object of `heap`, named by    *)
(* its index, so that "dict(self.nodes)" (a copy) and "self.nodes" (the    *)
(* same object) are different things and an in-place write is visible to   *)
(* every holder of the object.  A dict is an insertion-ordered sequence of *)
(* <<key, value>> pairs, as Python dicts are.  The frozen dataclasses      *)
(* (QueryNode, QueryEdge, DataNodeInfo, QueryGraph, Query) are records     *)
(* whose container fields hold heap references.                            *)
(***************************************************************************)
EXTENDS Integers, Sequences, FiniteSets, TLC

VARIABLES
    heap,       \* the dicts and lists allocated so far: reference -> content
    queries,    \* the Query values the caller holds, oldest first
    made,       \* made[k]: the call that returned queries[k], with its arguments
    error,      \* the operation that has just raised and its exception, until
                \* the caller handles it
    args,       \* the arguments of a call of one of the pure functions
    result      \* what that call returned or raised; NoResult before it

vars == <<heap, queries, made, error, args, result>>

-----------------------------------------------------------------------------
(* Bounds and input sets *)

\* The number of Query values the caller keeps (the empty one included).
MaxQueries == 4

\* No pure function is being called; its call has not returned yet.
NoArgs == [fn |-> "none"]
NoResult == [status |-> "pending"]

\* Python's None for an Optional[str]; for an Optional[int]; for an
\* Optional[List[str]] (the empty list is not drawn as an input: the code
\* tests predicates only for truthiness).
None == "None"
NoneId == -1
NonePreds == <<>>

\* The arguments the caller draws.  find_related's hops, predicates and
\* multi_hop_predicates come as bundles, one for each branch of its edge
\* construction and one with a non-positive hop count; relate_to's arguments
\* likewise: its defaults (pointer to pointer), and both ends named by alias
\* with a non-positive hop count and a predicate.
Classes == {"Valve"}
Aliases == {None, "a"}
Froms == {None, "a"}
FromsAll == {None, "a", "*"}
EdgeArgs ==
    { [hops |-> 2, predicates |-> NonePreds, multi_hop_predicates |-> FALSE],
      [hops |-> 2, predicates |-> <<"p">>,   multi_hop_predicates |-> TRUE],
      [hops |-> 2, predicates |-> <<"p">>,   multi_hop_predicates |-> FALSE],
      [hops |-> 0, predicates |-> NonePreds, multi_hop_predicates |-> FALSE] }
RelateArgs ==
    { [_from |-> None, _to |-> None, hops |-> 3, predicates |-> NonePreds],
      [_from |-> "a",  _to |-> "a",  hops |-> 0, predicates |-> <<"p">>] }
Paths == {None, "p"}
FiltersArgs == {<<>>, << <<"hasUnit", "DEG_F">> >>}
FilterPredicates == {"hasUnit", "hasMedium"}
FilterValues == {"DEG_C"}

-----------------------------------------------------------------------------
(* Python containers *)

\* max(a, b)
Max2(a, b) == IF a >= b THEN a ELSE b

\* d.keys()
DKeys(d) == {d[i][1] : i \in DOMAIN d}

\* k in d
DHas(d, k) == \E i \in DOMAIN d : d[i][1] = k

\* d[k]
DGet(d, k) == d[CHOOSE i \in DOMAIN d : d[i][1] = k][2]

\* d.get(k, default)
DGetOr(d, k, default) == IF DHas(d, k) THEN DGet(d, k) ELSE default

\* d[k] = v : an existing key keeps its position, a new key goes last
DSet(d, k, v) ==
    IF DHas(d, k)
    THEN [i \in DOMAIN d |-> IF d[i][1] = k THEN <<k, v>> ELSE d[i]]
    ELSE Append(d, <<k, v>>)

\* max(d.keys(), default=-1)
MaxKey(d) == IF d = <<>> THEN -1 ELSE CHOOSE k \in DKeys(d) : \A j \in DKeys(d) : j <= k

\* sorted(s) for a set of integers
RECURSIVE Sorted(_)
Sorted(s) ==
    IF s = {} THEN <<>>
    ELSE LET m == CHOOSE x \in s : \A y \in s : x <= y
         IN <<m>> \o Sorted(s \ {m})

\* A new object holding v: its reference is NewRef(h), the heap is Alloc(h, v).
NewRef(h) == Len(h) + 1
Alloc(h, v) == Append(h, v)

\* dict(x) / list(x): a new object with the content of object r
Copy(h, r) == Alloc(h, h[r])

-----------------------------------------------------------------------------
(* query_graph.py *)

QueryNode(id, rdf_class, alias, constraints) ==
    [id |-> id, rdf_class |-> rdf_class, alias |-> alias, constraints |-> constraints]

\* constraints of an entity node ({}: no key, so .get gives nothing) and of
\* a data node ({"is_data_node": True, "path_from": path})
NoConstraints == [is_data_node |-> FALSE, path_from |-> None]
DataConstraints(path) == [is_data_node |-> TRUE, path_from |-> path]

QueryEdge(source_id, target_id, hops, predicates) ==
    [source_id |-> source_id, target_id |-> target_id,
     hops |-> hops, predicates |-> predicates]

\* DataNodeInfo: filters is a reference to a dict
DataNodeInfo(node_id, filters) == [node_id |-> node_id, filters |-> filters]

\* QueryGraph(...): the fields are references, current_pointer a value
QueryGraph(nodes, edges, aliases, aliases_reverse, current_pointer, data_nodes) ==
    [nodes |-> nodes, edges |-> edges, aliases |-> aliases,
     aliases_reverse |-> aliases_reverse,
     current_pointer |-> current_pointer, data_nodes |-> data_nodes]

\* The outcome of a graph operation: the heap after it and the new graph.
HG(h, g) == [h |-> h, g |-> g]

\* The name a node is registered under: its alias, or str(node.id)
alias_of(node) == IF node.alias # None THEN node.alias ELSE ToString(node.id)

\* The mutated with_node: nodes = self.nodes instead of dict(self.nodes), so
\* the node is written into the dict the old graph still holds.
with_node_inplace(h, g, node) ==
    HG([h EXCEPT ![g.nodes] = DSet(@, node.id, node)]
         \o << DSet(h[g.aliases], alias_of(node), node.id),
               DSet(h[g.aliases_reverse], node.id, alias_of(node)),
               h[g.edges],
               h[g.data_nodes] >>,
       QueryGraph(g.nodes, Len(h) + 3, Len(h) + 1, Len(h) + 2, node.id, Len(h) + 4))

\* Five new objects: nodes, aliases and aliases_reverse are copies with the
\* node written in, edges and data_nodes are copies.
with_node(h, g, node) ==
    HG(h \o << DSet(h[g.nodes], node.id, node),
               DSet(h[g.aliases], alias_of(node), node.id),
               DSet(h[g.aliases_reverse], node.id, alias_of(node)),
               h[g.edges],
               h[g.data_nodes] >>,
       QueryGraph(Len(h) + 1, Len(h) + 4, Len(h) + 2, Len(h) + 3, node.id, Len(h) + 5))

\* The mutated with_edge: the new_pointer argument is ignored.
with_edge_keep_pointer(h, g, edge, new_pointer) ==
    HG(h \o << Append(h[g.edges], edge), h[g.nodes], h[g.aliases],
               h[g.aliases_reverse], h[g.data_nodes] >>,
       QueryGraph(Len(h) + 2, Len(h) + 1, Len(h) + 3, Len(h) + 4,
                  g.current_pointer, Len(h) + 5))

with_edge(h, g, edge, new_pointer) ==
    HG(h \o << Append(h[g.edges], edge), h[g.nodes], h[g.aliases],
               h[g.aliases_reverse], h[g.data_nodes] >>,
       QueryGraph(Len(h) + 2, Len(h) + 1, Len(h) + 3, Len(h) + 4,
                  IF new_pointer # NoneId THEN new_pointer ELSE g.current_pointer,
                  Len(h) + 5))

with_data_node(h, g, info) ==
    HG(h \o << DSet(h[g.data_nodes], info.node_id, info), h[g.nodes], h[g.edges],
               h[g.aliases], h[g.aliases_reverse] >>,
       QueryGraph(Len(h) + 2, Len(h) + 3, Len(h) + 4, Len(h) + 5,
                  g.current_pointer, Len(h) + 1))

resolve_alias(h, g, alias_or_none) ==
    IF alias_or_none = None THEN g.current_pointer
    ELSE DGetOr(h[g.aliases], alias_or_none, NoneId)

-----------------------------------------------------------------------------
(* query.py: the Query builder *)

\* Query(query_graph=..., _next_id=...): the cache field is a new empty dict
Query(query_graph, next_id, cache) ==
    [query_graph |-> query_graph, _next_id |-> next_id, cache |-> cache]

\* The outcome of a builder call: "ok" with the new Query, or the exception
\* raised; h is the heap as the call left it.
Returned(h, q) == [status |-> "ok", h |-> h, q |-> q]
Raised(h, exception) ==
    [status |-> exception, h |-> h, q |-> Query(QueryGraph(0, 0, 0, 0, NoneId, 0), 0, 0)]

\* self.cache.clear()
cache_clear(h, q) == [h EXCEPT ![q.cache] = <<>>]

\* nid = self._next_id; "self._next_id + 1" is an expression without effect
_new_id(q) == q._next_id

_clone_with_graph(h, q, new_graph, bump_id) ==
    Returned(Alloc(h, <<>>),
             Query(new_graph, q._next_id + (IF bump_id THEN 1 ELSE 0), NewRef(h)))

\* _add_data_node, lines 73-93: the edge from the source, or with no source
\* a new QueryGraph of copies with the pointer on the new node
add_data_edge(r, new_id, src_id, path, hops, force_one_hop) ==
    IF src_id # NoneId
    THEN IF path # None
         THEN with_edge(r.h, r.g, QueryEdge(src_id, new_id, 1, <<path>>), new_id)
         ELSE with_edge(r.h, r.g,
                        QueryEdge(src_id, new_id, IF force_one_hop THEN 1 ELSE hops,
                                  NonePreds),
                        new_id)
    ELSE HG(r.h \o << r.h[r.g.nodes], r.h[r.g.edges], r.h[r.g.aliases],
                      r.h[r.g.aliases_reverse], r.h[r.g.data_nodes] >>,
            QueryGraph(Len(r.h) + 1, Len(r.h) + 2, Len(r.h) + 3, Len(r.h) + 4,
                       new_id, Len(r.h) + 5))

\* _add_data_node, lines 95-99: DataNodeInfo(new_id, dict(filters_dict or {}));
\* filters_dict is a dict value, <<>> for None
add_data_info(r, new_id, filters_dict) ==
    with_data_node(Alloc(r.h, filters_dict), r.g, DataNodeInfo(new_id, NewRef(r.h)))

_add_data_node(h, q, g, src_id, path, _class, alias, hops, filters_dict, force_one_hop) ==
    add_data_info(
        add_data_edge(
            with_node(h, g, QueryNode(_new_id(q), _class, alias, DataConstraints(path))),
            _new_id(q), src_id, path, hops, force_one_hop),
        _new_id(q), filters_dict)

\* x.strip().lower() on the strings drawn as _from
Lower(x) == IF x \in {"All", "ALL"} THEN "all" ELSE x

is_all(x) == x # None /\ Lower(x) \in {"*", "all"}

\* The mutated selection, without the fallback of lines 118-119: an absent
\* _from is resolved to the pointer and treated as a named node is.
_select_data_node_ids_no_fallback(h, q, _from) ==
    LET g == q.query_graph
        dn == h[g.data_nodes]
        rid == resolve_alias(h, g, _from)
        edges == h[g.edges]
        attached == {edges[i].target_id : i \in
                        {j \in DOMAIN edges : /\ edges[j].source_id = rid
                                                /\ DHas(dn, edges[j].target_id)}}
    IN  IF dn = <<>> THEN [status |-> "ValueError", ids |-> <<>>]
        ELSE IF is_all(_from) THEN [status |-> "ok", ids |-> Sorted(DKeys(dn))]
        ELSE IF rid = NoneId THEN [status |-> "ValueError", ids |-> <<>>]
        ELSE IF DHas(dn, rid) THEN [status |-> "ok", ids |-> <<rid>>]
        ELSE [status |-> "ok", ids |-> Sorted(attached)]

\* The targets of a filter: [status, ids].
_select_data_node_ids(h, q, _from) ==
    LET g == q.query_graph
        dn == h[g.data_nodes]
        rid == resolve_alias(h, g, _from)
        edges == h[g.edges]
        attached == {edges[i].target_id : i \in
                        {j \in DOMAIN edges : /\ edges[j].source_id = rid
                                                /\ DHas(dn, edges[j].target_id)}}
    IN  IF dn = <<>> THEN [status |-> "ValueError", ids |-> <<>>]
        ELSE IF is_all(_from) THEN [status |-> "ok", ids |-> Sorted(DKeys(dn))]
        ELSE IF _from = None
             THEN IF DHas(dn, g.current_pointer)
                  THEN [status |-> "ok", ids |-> <<g.current_pointer>>]
                  ELSE [status |-> "ok", ids |-> Sorted(DKeys(dn))]
        ELSE IF rid = NoneId THEN [status |-> "ValueError", ids |-> <<>>]
        ELSE IF DHas(dn, rid) THEN [status |-> "ok", ids |-> <<rid>>]
        ELSE [status |-> "ok", ids |-> Sorted(attached)]

find_entity(h, q, _class, alias) ==
    LET h0 == cache_clear(h, q)
        node_id == _new_id(q)
        node == QueryNode(node_id, _class, alias, NoConstraints)
        r == with_node(h0, q.query_graph, node)
    IN _clone_with_graph(r.h, q, r.g, TRUE)

\* The mutated find_related, without the check of the source: the edge
\* starts at "no node".
find_related_unchecked(h, q, _class, alias, _from, hops, predicates, multi_hop_predicates) ==
    LET h0 == cache_clear(h, q)
        src_id == resolve_alias(h0, q.query_graph, _from)
        new_id == _new_id(q)
        r1 == with_node(h0, q.query_graph, QueryNode(new_id, _class, alias, NoConstraints))
        edge == IF predicates # NonePreds /\ multi_hop_predicates
                THEN QueryEdge(src_id, new_id, hops, predicates)
                ELSE IF predicates # NonePreds /\ ~multi_hop_predicates
                THEN QueryEdge(src_id, new_id, 1, predicates)
                ELSE QueryEdge(src_id, new_id, hops, NonePreds)
        r2 == with_edge(r1.h, r1.g, edge, new_id)
    IN  _clone_with_graph(r2.h, q, r2.g, TRUE)

\* The mutated find_related, multi_hop_predicates ignored: given predicates
\* always go with the given hops.
find_related_multi_ignored(h, q, _class, alias, _from, hops, predicates, multi_hop_predicates) ==
    LET h0 == cache_clear(h, q)
        src_id == resolve_alias(h0, q.query_graph, _from)
        new_id == _new_id(q)
        r1 == with_node(h0, q.query_graph, QueryNode(new_id, _class, alias, NoConstraints))
        r2 == with_edge(r1.h, r1.g, QueryEdge(src_id, new_id, hops, predicates), new_id)
    IN  IF src_id = NoneId THEN Raised(h0, "ValueError")
        ELSE _clone_with_graph(r2.h, q, r2.g, TRUE)

find_related(h, q, _class, alias, _from, hops, predicates, multi_hop_predicates) ==
    LET h0 == cache_clear(h, q)
        src_id == resolve_alias(h0, q.query_graph, _from)
        new_id == _new_id(q)
        new_node == QueryNode(new_id, _class, alias, NoConstraints)
        r1 == with_node(h0, q.query_graph, new_node)
        edge == IF predicates # NonePreds /\ multi_hop_predicates
                THEN QueryEdge(src_id, new_id, hops, predicates)
                ELSE IF predicates # NonePreds /\ ~multi_hop_predicates
                THEN QueryEdge(src_id, new_id, 1, predicates)
                ELSE QueryEdge(src_id, new_id, hops, NonePreds)
        r2 == with_edge(r1.h, r1.g, edge, new_id)
    IN  IF src_id = NoneId THEN Raised(h0, "ValueError")
        ELSE _clone_with_graph(r2.h, q, r2.g, TRUE)

\* The mutated node merge, ids not remapped: merged_nodes[nid] = node
RECURSIVE merge_nodes_raw(_, _, _)
merge_nodes_raw(merged, other_nodes, offset) ==
    IF other_nodes = <<>> THEN merged
    ELSE merge_nodes_raw(DSet(merged, Head(other_nodes)[1], Head(other_nodes)[2]),
                         Tail(other_nodes), offset)

\* The mutated node merge, off by one: merged_nodes[max_id_self + nid] = node
RECURSIVE merge_nodes_off_by_one(_, _, _)
merge_nodes_off_by_one(merged, other_nodes, offset) ==
    IF other_nodes = <<>> THEN merged
    ELSE merge_nodes_off_by_one(
             DSet(merged, offset - 1 + Head(other_nodes)[1], Head(other_nodes)[2]),
             Tail(other_nodes), offset)

\* for nid, node in other.nodes.items(): merged_nodes[max_id_self + 1 + nid] = node
RECURSIVE merge_nodes(_, _, _)
merge_nodes(merged, other_nodes, offset) ==
    IF other_nodes = <<>> THEN merged
    ELSE merge_nodes(DSet(merged, offset + Head(other_nodes)[1], Head(other_nodes)[2]),
                     Tail(other_nodes), offset)

\* for edge in other.edges: merged_edges.append(QueryEdge(mapped ends, hops, predicates))
RECURSIVE merge_edges(_, _, _)
merge_edges(merged, other_edges, offset) ==
    IF other_edges = <<>> THEN merged
    ELSE merge_edges(Append(merged,
                            QueryEdge(offset + Head(other_edges).source_id,
                                      offset + Head(other_edges).target_id,
                                      Head(other_edges).hops,
                                      Head(other_edges).predicates)),
                     Tail(other_edges), offset)

\* The mutated alias loop: a name self already has keeps self's node.
RECURSIVE merge_aliases_keep_first(_, _, _)
merge_aliases_keep_first(merged, other_aliases, offset) ==
    IF other_aliases = <<>> THEN merged
    ELSE merge_aliases_keep_first(
             IF DHas(merged, Head(other_aliases)[1]) THEN merged
             ELSE DSet(merged, Head(other_aliases)[1], offset + Head(other_aliases)[2]),
             Tail(other_aliases), offset)

\* for alias_name, nid in other.aliases.items(): merged_aliases[alias_name] = mapped nid
RECURSIVE merge_aliases(_, _, _)
merge_aliases(merged, other_aliases, offset) ==
    IF other_aliases = <<>> THEN merged
    ELSE merge_aliases(DSet(merged, Head(other_aliases)[1], offset + Head(other_aliases)[2]),
                       Tail(other_aliases), offset)

\* {v: k for k, v in d.items()}, built onto acc
RECURSIVE invert(_, _)
invert(acc, d) ==
    IF d = <<>> THEN acc
    ELSE invert(DSet(acc, Head(d)[2], Head(d)[1]), Tail(d))

\* Lines 235-265: the merged containers (four new objects) and, as
\* QueryGraph(...) is given no data_nodes, the default: a new empty dict.
\* merged_aliases_reverse is rebuilt inside the alias loop, so only when
\* other has an alias.
merge_graphs(h, g, og, offset, src_id) ==
    HG(h \o << merge_nodes(h[g.nodes], h[og.nodes], offset),
               merge_edges(h[g.edges], h[og.edges], offset),
               merge_aliases(h[g.aliases], h[og.aliases], offset),
               IF h[og.aliases] = <<>> THEN h[g.aliases_reverse]
               ELSE invert(<<>>, merge_aliases(h[g.aliases], h[og.aliases], offset)),
               <<>> >>,
       QueryGraph(Len(h) + 1, Len(h) + 2, Len(h) + 3, Len(h) + 4, src_id, Len(h) + 5))

relate_to(h, q, other, _from, _to, hops, predicates) ==
    LET h0 == cache_clear(cache_clear(h, q), other)
        g == q.query_graph
        og == other.query_graph
        src_id == IF _from = None THEN g.current_pointer ELSE resolve_alias(h0, g, _from)
        tgt_id == IF _to = None THEN og.current_pointer ELSE resolve_alias(h0, og, _to)
        \* other_mapping[nid] = max_id_self + 1 + nid
        offset == MaxKey(h0[g.nodes]) + 1
        m == merge_graphs(h0, g, og, offset, src_id)
        r == with_edge(m.h, m.g, QueryEdge(src_id, offset + tgt_id, hops, predicates),
                       offset + tgt_id)
    IN  IF src_id = NoneId THEN Raised(h0, "ValueError")
        ELSE IF tgt_id = NoneId THEN Raised(h0, "ValueError")
        ELSE Returned(Alloc(r.h, <<>>),
                      Query(r.g, Max2(q._next_id, other._next_id), NewRef(r.h)))

\* The loop body always reaches "Query(service=self.service, ...)" in its
\* first round, and Query has no attribute service: AttributeError, after
\* the first data node was built on a graph nobody holds.
find_data(h, q, _from, path, _class, hops, filters_dict, alias) ==
    LET h0 == cache_clear(h, q)
        g == q.query_graph
        nodes == h0[g.nodes]
        src_id == resolve_alias(h0, g, _from)
        src_ids == IF is_all(_from) THEN Sorted(DKeys(nodes)) ELSE <<src_id>>
        first == src_ids[1]
        src_alias == DGetOr(h0[g.aliases_reverse], first, ToString(first))
        a == IF alias = None THEN src_alias \o "_data" ELSE alias
        r == _add_data_node(h0, q, g, first, path, _class, a, hops, filters_dict, TRUE)
    IN  IF is_all(_from) /\ nodes = <<>> THEN Raised(h0, "ValueError")
        ELSE IF ~is_all(_from) /\ src_id = NoneId THEN Raised(h0, "ValueError")
        ELSE Raised(r.h, "AttributeError")

find_all_data(h, q, _class, hops, filters_dict, alias) ==
    LET h0 == cache_clear(h, q)
        g == q.query_graph
        r == _add_data_node(h0, q, g, NoneId, None, _class, alias, hops, filters_dict, FALSE)
    IN  IF h0[g.nodes] = <<>>
        THEN _clone_with_graph(r.h, q, r.g, TRUE)
        ELSE find_data(h0, q, "*", None, _class, hops, filters_dict, alias)

\* The mutated loop: each target's filter map is built anew from the one
\* predicate, not from a copy of the map it had.
RECURSIVE set_filters_fresh(_, _, _, _, _)
set_filters_fresh(h, dn2, targets, predicate, value) ==
    IF targets = <<>> THEN h
    ELSE LET nid == Head(targets)
             info == DGet(h[dn2], nid)
             new_filters == NewRef(h)
             h1 == Alloc(h, << <<predicate, value>> >>)
             h2 == [h1 EXCEPT ![dn2] = DSet(@, nid, DataNodeInfo(info.node_id, new_filters))]
         IN set_filters_fresh(h2, dn2, Tail(targets), predicate, value)

\* for nid in targets: dn2[nid] = replace(info, filters={**info.filters, predicate: value})
RECURSIVE set_filters(_, _, _, _, _)
set_filters(h, dn2, targets, predicate, value) ==
    IF targets = <<>> THEN h
    ELSE LET nid == Head(targets)
             info == DGet(h[dn2], nid)
             new_filters == NewRef(h)
             h1 == [Copy(h, info.filters) EXCEPT ![new_filters] = DSet(@, predicate, value)]
             h2 == [h1 EXCEPT ![dn2] = DSet(@, nid, DataNodeInfo(info.node_id, new_filters))]
         IN set_filters(h2, dn2, Tail(targets), predicate, value)

\* Lines 384-391: QueryGraph(copies of nodes, edges, aliases, aliases_reverse,
\* the pointer, data_nodes=dn2)
filter_graph(h, g, dn2) ==
    HG(h \o << h[g.nodes], h[g.edges], h[g.aliases], h[g.aliases_reverse] >>,
       QueryGraph(Len(h) + 1, Len(h) + 2, Len(h) + 3, Len(h) + 4,
                  g.current_pointer, dn2))

filter_data_nodes(h, q, predicate, value, _from) ==
    LET h0 == cache_clear(h, q)
        g == q.query_graph
        sel == _select_data_node_ids(h0, q, _from)
        \* dn2 = dict(g.data_nodes), then the loop over the targets
        r == filter_graph(set_filters(Copy(h0, g.data_nodes), NewRef(h0), sel.ids,
                                      predicate, value),
                          g, NewRef(h0))
    IN  IF sel.status # "ok" THEN Raised(h0, sel.status)
        ELSE IF sel.ids = <<>> THEN Raised(h0, "ValueError")
        ELSE _clone_with_graph(r.h, q, r.g, FALSE)

\* to_dict(): the structural snapshot, every container read through the heap
to_dict(h, q) ==
    LET g == q.query_graph
        nodes == h[g.nodes]
        edges == h[g.edges]
        dn == h[g.data_nodes]
    IN [nodes |-> [i \in DOMAIN nodes |->
                     [id |-> nodes[i][2].id, rdf_class |-> nodes[i][2].rdf_class,
                      alias |-> nodes[i][2].alias,
                      constraints |-> nodes[i][2].constraints]],
        edges |-> [i \in DOMAIN edges |->
                     [source_id |-> edges[i].source_id, target_id |-> edges[i].target_id,
                      hops |-> edges[i].hops, predicates |-> edges[i].predicates]],
        aliases |-> h[g.aliases],
        aliases_reverse |-> h[g.aliases_reverse],
        current_pointer |-> g.current_pointer,
        data_nodes |-> [i \in DOMAIN dn |->
                     [id |-> dn[i][1],
                      alias |-> DGetOr(h[g.aliases_reverse], dn[i][1],
                                       "v" \o ToString(dn[i][1])),
                      filters |-> h[dn[i][2].filters]]]]

-----------------------------------------------------------------------------
(* The caller: it holds Query values and calls the builder on them *)

\* The record of a call; each action fills in the arguments it takes.
NoCall ==
    [op |-> "query", status |-> "ok", self |-> 0, other |-> 0,
     _class |-> None, alias |-> None, _from |-> None, _to |-> None,
     hops |-> 3, predicates |-> NonePreds, multi_hop_predicates |-> FALSE,
     path |-> None, predicate |-> None, value |-> None, filters_dict |-> <<>>]

\* Query(): an empty graph (five new empty containers), _next_id 0, a new cache
Init ==
    /\ heap = << <<>>, <<>>, <<>>, <<>>, <<>>, <<>> >>
    /\ queries = << Query(QueryGraph(1, 2, 3, 4, NoneId, 5), 0, 6) >>
    /\ made = << NoCall >>
    /\ error = NoCall
    /\ args = NoArgs
    /\ result = NoResult

\* The call returns: the caller keeps the new Query beside the old ones.  The
\* call raises: nothing is returned, the caller sees the exception, and what
\* the call allocated is dropped with it (its writes into objects that existed
\* before stay).
Deliver(r, call) ==
    /\ error = NoCall
    /\ r.status = "ok" => Len(queries) < MaxQueries
    /\ heap' = IF r.status = "ok" THEN r.h ELSE SubSeq(r.h, 1, Len(heap))
    /\ queries' = IF r.status = "ok" THEN Append(queries, r.q) ELSE queries
    /\ made' = IF r.status = "ok" THEN Append(made, call) ELSE made
    /\ error' = IF r.status = "ok" THEN NoCall
                ELSE [NoCall EXCEPT !.op = call.op, !.status = r.status]
    /\ UNCHANGED <<args, result>>

\* The caller handles the exception and goes on with the Queries it holds.
Except ==
    /\ error # NoCall
    /\ error' = NoCall
    /\ UNCHANGED <<heap, queries, made, args, result>>

FindEntity ==
    \E i \in 1..Len(queries), c \in Classes, a \in Aliases :
        Deliver(find_entity(heap, queries[i], c, a),
                [NoCall EXCEPT !.op = "find_entity", !.self = i,
                               !._class = c, !.alias = a])

FindRelated ==
    \E i \in 1..Len(queries), c \in Classes, f \in Froms, e \in EdgeArgs :
        Deliver(find_related(heap, queries[i], c, None, f,
                             e.hops, e.predicates, e.multi_hop_predicates),
                [NoCall EXCEPT !.op = "find_related", !.self = i,
                               !._class = c, !._from = f, !.hops = e.hops,
                               !.predicates = e.predicates,
                               !.multi_hop_predicates = e.multi_hop_predicates])

RelateTo ==
    \E i \in 1..Len(queries), j \in 1..Len(queries), e \in RelateArgs :
        Deliver(relate_to(heap, queries[i], queries[j], e._from, e._to,
                          e.hops, e.predicates),
                [NoCall EXCEPT !.op = "relate_to", !.self = i, !.other = j,
                               !._from = e._from, !._to = e._to,
                               !.hops = e.hops, !.predicates = e.predicates])

FindData ==
    \E i \in 1..Len(queries), f \in FromsAll, pa \in Paths :
        Deliver(find_data(heap, queries[i], f, pa, None, 3, <<>>, None),
                [NoCall EXCEPT !.op = "find_data", !.self = i,
                               !._from = f, !.path = pa])

FindAllData ==
    \E i \in 1..Len(queries), a \in Aliases, fd \in FiltersArgs :
        Deliver(find_all_data(heap, queries[i], None, 3, fd, a),
                [NoCall EXCEPT !.op = "find_all_data", !.self = i,
                               !.alias = a, !.filters_dict = fd])

FilterDataNodes ==
    \E i \in 1..Len(queries), pr \in FilterPredicates, v \in FilterValues, f \in FromsAll :
        Deliver(filter_data_nodes(heap, queries[i], pr, v, f),
                [NoCall EXCEPT !.op = "filter_data_nodes", !.self = i,
                               !.predicate = pr, !.value = v, !._from = f])

Next ==
    \/ FindEntity
    \/ FindRelated
    \/ RelateTo
    \/ FindData
    \/ FindAllData
    \/ FilterDataNodes
    \/ Except

Spec == Init /\ [][Next]_vars

-----------------------------------------------------------------------------
(* Reading the held Queries *)

Held == 1..Len(queries)
NodesOf(k) == heap[queries[k].query_graph.nodes]
EdgesOf(k) == heap[queries[k].query_graph.edges]
AliasesOf(k) == heap[queries[k].query_graph.aliases]
DataNodesOf(k) == heap[queries[k].query_graph.data_nodes]
PointerOf(k) == queries[k].query_graph.current_pointer
FiltersOf(k, nid) == heap[DGet(DataNodesOf(k), nid).filters]

\* The node a name stands for in queries[k]: the pointer for None, else the
\* alias table's entry; NoneId when there is none.
Resolved(k, name) ==
    IF name = None THEN PointerOf(k) ELSE DGetOr(AliasesOf(k), name, NoneId)

\* What queries[k] was made from
SelfOf(k) == made[k].self
OtherOf(k) == made[k].other

-----------------------------------------------------------------------------
(* C1 *)

\* C1: builder immutability.  Across every builder call, every Query held
\* before it (the receiver, and relate_to's `other`) is still the same value
\* and has the same to_dict() snapshot after it as before it.
C1_BuilderImmutability ==
    [][\A k \in Held : /\ queries'[k] = queries[k]
                       /\ to_dict(heap', queries[k]) = to_dict(heap, queries[k])]_vars

\* A filter and a merge of two different non-empty Queries have returned.
C1_Witness ==
    \E k, j \in Held :
        /\ made[k].op = "relate_to" /\ SelfOf(k) # OtherOf(k)
        /\ NodesOf(SelfOf(k)) # <<>> /\ NodesOf(OtherOf(k)) # <<>>
        /\ made[j].op = "filter_data_nodes"

-----------------------------------------------------------------------------
(* C2 *)

\* The heap a raising call leaves to the caller
AfterRaise(r) == SubSeq(r.h, 1, Len(heap))

\* The call raised a validation error, returned nothing, and left every
\* held Query's snapshot as it was.
FailsClean(r) ==
    /\ r.status = "ValueError"
    /\ \A k \in Held : to_dict(AfterRaise(r), queries[k]) = to_dict(heap, queries[k])

\* C2: error atomicity.  In every reachable state, each builder call whose
\* source or target cannot be resolved (find_related / find_data with an
\* unknown alias or no pointer, relate_to with an unresolved end on either
\* side, filter_data_nodes with no targets) raises a validation error,
\* returns no Query and leaves the snapshot of every held Query unchanged.
C2_ErrorAtomicity ==
    \A i \in Held :
        /\ \A c \in Classes, f \in Froms, e \in EdgeArgs :
              Resolved(i, f) = NoneId =>
                  FailsClean(find_related(heap, queries[i], c, None, f, e.hops,
                                          e.predicates, e.multi_hop_predicates))
        /\ \A f \in Froms, pa \in Paths :
              Resolved(i, f) = NoneId =>
                  FailsClean(find_data(heap, queries[i], f, pa, None, 3, <<>>, None))
        /\ \A j \in Held, e \in RelateArgs :
              (Resolved(i, e._from) = NoneId \/ Resolved(j, e._to) = NoneId) =>
                  FailsClean(relate_to(heap, queries[i], queries[j], e._from, e._to,
                                       e.hops, e.predicates))
        /\ \A pr \in FilterPredicates, v \in FilterValues, f \in FromsAll :
              LET sel == _select_data_node_ids(heap, queries[i], f)
              IN  (sel.status # "ok" \/ sel.ids = <<>>) =>
                      FailsClean(filter_data_nodes(heap, queries[i], pr, v, f))

\* relate_to has just raised a validation error while the caller holds a
\* Query that is not empty, and an unknown alias is there to be asked for.
C2_Witness ==
    /\ error.op = "relate_to" /\ error.status = "ValueError"
    /\ \E k \in Held : NodesOf(k) # <<>> /\ Resolved(k, "a") = NoneId

-----------------------------------------------------------------------------
(* C3 *)

\* C3: edge referential integrity.  In every held Query, every edge's
\* source_id and target_id are keys of nodes.
C3_EdgeEndpoints ==
    \A k \in Held : \A i \in DOMAIN EdgesOf(k) :
        /\ DHas(NodesOf(k), EdgesOf(k)[i].source_id)
        /\ DHas(NodesOf(k), EdgesOf(k)[i].target_id)

\* A merge has brought in an edge of `other`, remapped, beside its own.
C3_Witness ==
    \E k \in Held :
        /\ made[k].op = "relate_to"
        /\ EdgesOf(OtherOf(k)) # <<>>
        /\ Len(EdgesOf(k)) = Len(EdgesOf(SelfOf(k))) + Len(EdgesOf(OtherOf(k))) + 1

-----------------------------------------------------------------------------
(* C4 *)

\* C4: in every held Query, a node id is a key of data_nodes if and only if
\* that node's constraints["is_data_node"] is true.
C4_DataNodesIff ==
    \A k \in Held : \A i \in DOMAIN NodesOf(k) :
        DHas(DataNodesOf(k), NodesOf(k)[i][1])
            <=> NodesOf(k)[i][2].constraints.is_data_node

-----------------------------------------------------------------------------
(* C5 *)

\* C5: fresh ids.  Every find_entity and find_related that returned used an
\* id that was no key of the receiver's nodes, and the result has exactly
\* one node more than the receiver.
C5_FreshIds ==
    \A k \in Held :
        made[k].op \in {"find_entity", "find_related"} =>
            /\ ~DHas(NodesOf(SelfOf(k)), _new_id(queries[SelfOf(k)]))
            /\ Len(NodesOf(k)) = Len(NodesOf(SelfOf(k))) + 1

-----------------------------------------------------------------------------
(* C6 *)

\* C6: every edge of every held Query has hops >= 1, and no find_related or
\* relate_to called with a non-positive hop count has returned a Query.
C6_HopsPositive ==
    \A k \in Held :
        /\ \A i \in DOMAIN EdgesOf(k) : EdgesOf(k)[i].hops >= 1
        /\ made[k].op \in {"find_related", "relate_to"} => made[k].hops >= 1

-----------------------------------------------------------------------------
(* C7 *)

\* C7: in every held Query current_pointer is absent exactly when the graph
\* is empty and is otherwise a key of nodes; after find_entity and
\* find_related it is the id the call allocated and names the node the call
\* created, after relate_to it is the remapped target.
C7_Pointer ==
    \A k \in Held :
        /\ PointerOf(k) = NoneId <=> NodesOf(k) = <<>>
        /\ PointerOf(k) # NoneId => DHas(NodesOf(k), PointerOf(k))
        /\ made[k].op \in {"find_entity", "find_related"} =>
              /\ PointerOf(k) = _new_id(queries[SelfOf(k)])
              /\ DGet(NodesOf(k), PointerOf(k))
                    = QueryNode(PointerOf(k), made[k]._class, made[k].alias,
                                NoConstraints)
        /\ made[k].op = "relate_to" =>
              PointerOf(k) = MaxKey(NodesOf(SelfOf(k))) + 1
                                + Resolved(OtherOf(k), made[k]._to)

\* A merge has returned whose target is not the node the receiver points at.
C7_Witness ==
    \E k \in Held :
        /\ made[k].op = "relate_to"
        /\ PointerOf(k) # PointerOf(SelfOf(k))
        /\ Len(NodesOf(OtherOf(k))) > 1

-----------------------------------------------------------------------------
(* C8 *)

\* C8: relate_to stores every node of `other`, under key n, under key
\* (maximum key of self) + 1 + n; these keys are pairwise distinct and none
\* is a key of self, so the merged graph has |self.nodes| + |other.nodes|
\* nodes: those of self under their keys and those of other under the
\* mapped ones.
C8_MergeIds ==
    \A k \in Held :
        made[k].op = "relate_to" =>
            LET s == NodesOf(SelfOf(k))
                o == NodesOf(OtherOf(k))
                offset == MaxKey(s) + 1
                mapped == {offset + n : n \in DKeys(o)}
            IN  /\ DKeys(NodesOf(k)) = DKeys(s) \cup mapped
                /\ mapped \cap DKeys(s) = {}
                /\ Cardinality(mapped) = Len(o)
                /\ Len(NodesOf(k)) = Len(s) + Len(o)
                /\ \A n \in DKeys(s) : DGet(NodesOf(k), n) = DGet(s, n)
                /\ \A n \in DKeys(o) : DGet(NodesOf(k), offset + n) = DGet(o, n)

\* Two different Queries whose raw ids overlap have been merged.
C8_Witness ==
    \E k \in Held :
        /\ made[k].op = "relate_to"
        /\ SelfOf(k) # OtherOf(k)
        /\ DKeys(NodesOf(SelfOf(k))) \cap DKeys(NodesOf(OtherOf(k))) # {}
        /\ Len(NodesOf(OtherOf(k))) > 1

-----------------------------------------------------------------------------
(* C9 *)

\* C9: relate_to preserves both operands: every node of self and of other
\* with its class and data-node marking, every edge of both (self's first
\* and in order, then other's with remapped ends and the same hops and
\* predicates), and every data-node record of both with its filters.
C9_MergePreserves ==
    \A k \in Held :
        made[k].op = "relate_to" =>
            LET s == SelfOf(k)
                o == OtherOf(k)
                offset == MaxKey(NodesOf(s)) + 1
            IN  /\ \A n \in DKeys(NodesOf(s)) :
                      /\ DHas(NodesOf(k), n)
                      /\ DGet(NodesOf(k), n).rdf_class = DGet(NodesOf(s), n).rdf_class
                      /\ DGet(NodesOf(k), n).constraints = DGet(NodesOf(s), n).constraints
                /\ \A n \in DKeys(NodesOf(o)) :
                      /\ DHas(NodesOf(k), offset + n)
                      /\ DGet(NodesOf(k), offset + n).rdf_class
                            = DGet(NodesOf(o), n).rdf_class
                      /\ DGet(NodesOf(k), offset + n).constraints
                            = DGet(NodesOf(o), n).constraints
                /\ Len(EdgesOf(k)) >= Len(EdgesOf(s)) + Len(EdgesOf(o))
                /\ \A i \in DOMAIN EdgesOf(s) : EdgesOf(k)[i] = EdgesOf(s)[i]
                /\ \A i \in DOMAIN EdgesOf(o) :
                      EdgesOf(k)[Len(EdgesOf(s)) + i]
                          = QueryEdge(offset + EdgesOf(o)[i].source_id,
                                      offset + EdgesOf(o)[i].target_id,
                                      EdgesOf(o)[i].hops, EdgesOf(o)[i].predicates)
                /\ \A n \in DKeys(DataNodesOf(s)) :
                      /\ DHas(DataNodesOf(k), n)
                      /\ FiltersOf(k, n) = FiltersOf(s, n)
                /\ \A n \in DKeys(DataNodesOf(o)) :
                      /\ DHas(DataNodesOf(k), offset + n)
                      /\ FiltersOf(k, offset + n) = FiltersOf(o, n)

-----------------------------------------------------------------------------
(* C10 *)

\* C10: find_related adds exactly one edge, after the receiver's edges, from
\* the resolved source to the new node, with (given hops, given predicates)
\* when predicates are given and multi_hop_predicates is true, (1, given
\* predicates) when predicates are given and it is false, and (given hops,
\* any predicate) when no predicates are given.
C10_RelatedEdge ==
    \A k \in Held :
        made[k].op = "find_related" =>
            LET given == made[k].predicates # NonePreds
                multi == made[k].multi_hop_predicates
                src == Resolved(SelfOf(k), made[k]._from)
                new == _new_id(queries[SelfOf(k)])
                shape == IF given /\ multi
                         THEN QueryEdge(src, new, made[k].hops, made[k].predicates)
                         ELSE IF given
                         THEN QueryEdge(src, new, 1, made[k].predicates)
                         ELSE QueryEdge(src, new, made[k].hops, NonePreds)
            IN  EdgesOf(k) = Append(EdgesOf(SelfOf(k)), shape)

\* The one-hop shape and the multi-hop shape have both been built from
\* calls that asked for two hops along given predicates.
C10_Witness ==
    /\ \E k \in Held : /\ made[k].op = "find_related"
                       /\ made[k].predicates # NonePreds
                       /\ ~made[k].multi_hop_predicates
                       /\ made[k].hops = 2
                       /\ EdgesOf(k)[Len(EdgesOf(k))].hops = 1
    /\ \E k \in Held : /\ made[k].op = "find_related"
                       /\ made[k].predicates # NonePreds
                       /\ made[k].multi_hop_predicates
                       /\ EdgesOf(k)[Len(EdgesOf(k))].hops = 2

-----------------------------------------------------------------------------
(* C11 *)

\* C11: find_data with a resolvable source (an existing alias, the current
\* pointer, or "*" on a non-empty graph) returns a new Query that holds, for
\* each selected source, one new node marked is_data_node and registered in
\* data_nodes, joined from that source by an edge with hops = 1 (predicates
\* = [path] when a path is given, any predicate otherwise).
C11_FindDataReturns ==
    \A i \in Held : \A f \in FromsAll, pa \in Paths :
        LET sources == IF is_all(f) THEN DKeys(NodesOf(i))
                       ELSE {Resolved(i, f)} \ {NoneId}
            r == find_data(heap, queries[i], f, pa, None, 3, <<>>, None)
            nodes == r.h[r.q.query_graph.nodes]
            edges == r.h[r.q.query_graph.edges]
            dn == r.h[r.q.query_graph.data_nodes]
            added == DKeys(nodes) \ DKeys(NodesOf(i))
        IN  sources # {} =>
              /\ r.status = "ok"
              /\ Cardinality(added) = Cardinality(sources)
              /\ \A n \in added : /\ DGet(nodes, n).constraints.is_data_node
                                  /\ DHas(dn, n)
              /\ \A src \in sources :
                    \E e \in DOMAIN edges :
                        /\ e > Len(EdgesOf(i))
                        /\ edges[e].source_id = src
                        /\ edges[e].target_id \in added
                        /\ edges[e].hops = 1
                        /\ edges[e].predicates
                              = (IF pa # None THEN <<pa>> ELSE NonePreds)

-----------------------------------------------------------------------------
(* C12 *)

\* C12: filter_data_nodes accumulates.  After it returned, the result has
\* the receiver's data nodes; each target's filter map is its previous map
\* with predicate -> value set (other predicates kept, the same predicate
\* overwritten) and every other data node's filter map is as it was.
C12_FiltersAccumulate ==
    \A k \in Held :
        made[k].op = "filter_data_nodes" =>
            LET s == SelfOf(k)
                sel == _select_data_node_ids(heap, queries[s], made[k]._from)
                targets == {sel.ids[i] : i \in DOMAIN sel.ids}
            IN  /\ DKeys(DataNodesOf(k)) = DKeys(DataNodesOf(s))
                /\ \A n \in DKeys(DataNodesOf(s)) :
                      FiltersOf(k, n)
                          = IF n \in targets
                            THEN DSet(FiltersOf(s, n), made[k].predicate, made[k].value)
                            ELSE FiltersOf(s, n)

\* One data node has been filtered twice with different predicates and
\* carries both filters, and a filter has overwritten the value another
\* node had for the same predicate.
C12_Witness ==
    /\ \E k \in Held : /\ made[k].op = "filter_data_nodes"
                       /\ made[SelfOf(k)].op = "filter_data_nodes"
                       /\ made[k].predicate # made[SelfOf(k)].predicate
                       /\ \E n \in DKeys(DataNodesOf(k)) :
                             /\ DHas(FiltersOf(k, n), made[k].predicate)
                             /\ DHas(FiltersOf(k, n), made[SelfOf(k)].predicate)
    /\ \E k \in Held : /\ made[k].op = "filter_data_nodes"
                       /\ \E n \in DKeys(DataNodesOf(k)) :
                             /\ DHas(FiltersOf(SelfOf(k), n), made[k].predicate)
                             /\ DGet(FiltersOf(SelfOf(k), n), made[k].predicate)
                                   # made[k].value
                             /\ DGet(FiltersOf(k, n), made[k].predicate) = made[k].value

-----------------------------------------------------------------------------
(* C13 *)

\* The data nodes of queries[i] that are targets of an edge leaving node rid
AttachedData(i, rid) ==
    {EdgesOf(i)[e].target_id : e \in
        {j \in DOMAIN EdgesOf(i) : /\ EdgesOf(i)[j].source_id = rid
                                   /\ DHas(DataNodesOf(i), EdgesOf(i)[j].target_id)}}

\* filter_data_nodes on queries[i] treats exactly the set T as its targets:
\* it raises a validation error when T is empty, and otherwise returns a
\* Query in which the nodes of T have predicate -> value set and every other
\* data node has the filter map it had.
FiltersExactly(i, T, pr, v, f) ==
    LET r == filter_data_nodes(heap, queries[i], pr, v, f)
        dn == r.h[r.q.query_graph.data_nodes]
    IN  IF T = {} THEN r.status = "ValueError"
        ELSE /\ r.status = "ok"
             /\ DKeys(dn) = DKeys(DataNodesOf(i))
             /\ \A n \in DKeys(DataNodesOf(i)) :
                   r.h[DGet(dn, n).filters]
                       = IF n \in T THEN DSet(FiltersOf(i, n), pr, v)
                         ELSE FiltersOf(i, n)

\* C13 as stated: the node resolved from `from`, or from the current pointer
\* when `from` is absent, is its own and only target when it is a data node;
\* when it is a plain entity the targets are the data nodes at the end of an
\* edge leaving it; filter_data_nodes fails with a validation error when
\* that set is empty and modifies no data node outside it.
C13_TargetsAsStated ==
    \A i \in Held : \A f \in Froms, pr \in FilterPredicates, v \in FilterValues :
        LET rid == Resolved(i, f)
        IN  rid # NoneId =>
                FiltersExactly(i,
                               IF DHas(DataNodesOf(i), rid) THEN {rid}
                               ELSE AttachedData(i, rid),
                               pr, v, f)

\* C13 amended: the targets are every data node when `from` is "*"/"all";
\* the resolved node itself when it is a data node; the data nodes at the
\* end of an edge leaving it when `from` names a plain entity; and every
\* data node of the graph when `from` is absent and the current pointer is
\* not a data node.  filter_data_nodes fails with a validation error when
\* the graph has no data node, when `from` is an unknown alias or when the
\* set is empty, and modifies no data node outside the set.
C13_Targets ==
    \A i \in Held : \A f \in FromsAll, pr \in FilterPredicates, v \in FilterValues :
        LET rid == Resolved(i, f)
            all == DKeys(DataNodesOf(i))
        IN  FiltersExactly(i,
                           IF is_all(f) THEN all
                           ELSE IF f = None
                                THEN (IF rid \in all THEN {rid} ELSE all)
                           ELSE IF rid = NoneId THEN {}
                           ELSE IF rid \in all THEN {rid}
                           ELSE AttachedData(i, rid),
                           pr, v, f)

\* A filter without `from` has returned for a Query whose pointer is on a
\* plain entity, and a filter from a named plain entity with no data node
\* attached has just raised.
C13_Witness ==
    /\ \E k \in Held : /\ made[k].op = "filter_data_nodes"
                       /\ made[k]._from = None
                       /\ PointerOf(SelfOf(k)) # NoneId
                       /\ ~DHas(DataNodesOf(SelfOf(k)), PointerOf(SelfOf(k)))
    /\ error.op = "filter_data_nodes" /\ error.status = "ValueError"
    /\ \E k \in Held : /\ DataNodesOf(k) # <<>>
                       /\ Resolved(k, "a") # NoneId
                       /\ ~DHas(DataNodesOf(k), Resolved(k, "a"))

-----------------------------------------------------------------------------
(* C14 *)

\* C14: alias collisions are last-write-wins and never rejected.  Adding a
\* node under a name that is already registered succeeds, be it through
\* find_entity / find_related or through relate_to with a name both operands
\* have, and resolve_alias(name) on the result is the newer registration:
\* the node just added, or for relate_to the remapped node of `other`
\* (names only self has keep self's node).
C14_AliasLastWriteWins ==
    /\ \A i \in Held : \A c \in Classes, a \in Aliases :
          find_entity(heap, queries[i], c, a).status = "ok"
    /\ \A i, j \in Held : \A e \in RelateArgs :
          (Resolved(i, e._from) # NoneId /\ Resolved(j, e._to) # NoneId) =>
              relate_to(heap, queries[i], queries[j], e._from, e._to,
                        e.hops, e.predicates).status = "ok"
    /\ \A k \in Held :
          LET g == queries[k].query_graph
              s == SelfOf(k)
              o == OtherOf(k)
              new == _new_id(queries[s])
          IN  /\ made[k].op \in {"find_entity", "find_related"} =>
                    resolve_alias(heap, g, IF made[k].alias # None THEN made[k].alias
                                           ELSE ToString(new)) = new
              /\ made[k].op = "relate_to" =>
                    /\ \A name \in DKeys(AliasesOf(o)) :
                          resolve_alias(heap, g, name)
                              = MaxKey(NodesOf(s)) + 1 + DGet(AliasesOf(o), name)
                    /\ \A name \in DKeys(AliasesOf(s)) \ DKeys(AliasesOf(o)) :
                          resolve_alias(heap, g, name) = DGet(AliasesOf(s), name)

\* find_entity has reused a name that named an older node, and a relate_to
\* has merged two Queries that both have the name "a".
C14_Witness ==
    /\ \E k \in Held : /\ made[k].op = "find_entity"
                       /\ made[k].alias # None
                       /\ DHas(AliasesOf(SelfOf(k)), made[k].alias)
                       /\ DGet(AliasesOf(SelfOf(k)), made[k].alias)
                             # DGet(AliasesOf(k), made[k].alias)
    /\ \E k \in Held : /\ made[k].op = "relate_to"
                       /\ DHas(AliasesOf(SelfOf(k)), "a")
                       /\ DHas(AliasesOf(OtherOf(k)), "a")
                       /\ DGet(AliasesOf(k), "a") # DGet(AliasesOf(SelfOf(k)), "a")

-----------------------------------------------------------------------------
(* C15 *)

\* aliases_reverse of queries[k]
AliasesReverseOf(k) == heap[queries[k].query_graph.aliases_reverse]

\* C15: in every held Query aliases_reverse is the inverse of aliases on the
\* active names: for every entry id -> name of aliases_reverse, name is
\* registered in aliases and aliases[name] = id.
C15_ReverseIsInverse ==
    \A k \in Held : \A i \in DOMAIN AliasesReverseOf(k) :
        /\ DHas(AliasesOf(k), AliasesReverseOf(k)[i][2])
        /\ DGet(AliasesOf(k), AliasesReverseOf(k)[i][2]) = AliasesReverseOf(k)[i][1]

-----------------------------------------------------------------------------
(* C16 *)

\* C16: node ids are unique within a graph: in every held Query the node
\* stored under key k of nodes has id field k, and the ids listed by
\* to_dict()["nodes"] are pairwise distinct.
C16_NodeIdsUnique ==
    \A k \in Held :
        /\ \A i \in DOMAIN NodesOf(k) : NodesOf(k)[i][2].id = NodesOf(k)[i][1]
        /\ \A i, j \in DOMAIN to_dict(heap, queries[k]).nodes :
              i # j => to_dict(heap, queries[k]).nodes[i].id
                          # to_dict(heap, queries[k]).nodes[j].id

-----------------------------------------------------------------------------
(* query.py: compilation of an edge, Query._edge_pattern *)

\* The compiled text is kept as the sequence of its tokens: the variables
\* "?v0", the IRIs "<p>", and the marks "(", ")", "|", "/", ".", "{", "}",
\* "UNION".  Two strings appended with nothing between them are two tokens
\* with no mark between them.

\* The longest predicate list and the largest hop count drawn for an edge,
\* and the largest position of an edge in the edge list.
MaxPreds == 2
MaxHops == 3
MaxEdgeIdx == 1

\* Predicate names drawn; "" is the falsy one line 471 removes.
PredNames == {"", "p", "q"}
PredLists == UNION {[1..n -> PredNames] : n \in 0..MaxPreds}

\* f"<{p}>"
Iri(p) == "<" \o p \o ">"

\* var_map[nid] = f"?v{nid}"
VarOf(nid) == "?v" \o ToString(nid)

\* f"?x_e{edge_idx}_{i}" and f"?p_e{edge_idx}_{i}"
XVar(edge_idx, i) == "?x_e" \o ToString(edge_idx) \o "_" \o ToString(i)
PVar(edge_idx, i) == "?p_e" \o ToString(edge_idx) \o "_" \o ToString(i)

\* sep.join(parts), each part a token sequence
RECURSIVE Join(_, _)
Join(parts, sep) ==
    IF parts = <<>> THEN <<>>
    ELSE IF Len(parts) = 1 THEN parts[1]
    ELSE parts[1] \o <<sep>> \o Join(Tail(parts), sep)

\* " ".join(parts): white space separates tokens and is none itself
RECURSIVE Spaced(_)
Spaced(parts) == IF parts = <<>> THEN <<>> ELSE parts[1] \o Spaced(Tail(parts))

\* [p for p in preds if p]
Truthy(preds) == SelectSeq(preds, LAMBDA p : p # "")

\* Lines 475-480: the predicates in order of first occurrence
RECURSIVE Uniq(_, _)
Uniq(seen, preds) ==
    IF preds = <<>> THEN <<>>
    ELSE IF Head(preds) \in seen THEN Uniq(seen, Tail(preds))
    ELSE <<Head(preds)>> \o Uniq(seen \cup {Head(preds)}, Tail(preds))

\* Lines 490-494, the inner loop from length k on: p repeated k times joined
\* by "/", then "|" unless k is the last length
RECURSIVE alt_lengths(_, _, _)
alt_lengths(p, k, hops) ==
    IF k > hops THEN <<>>
    ELSE Join([i \in 1..k |-> <<Iri(p)>>], "/")
            \o (IF k < hops THEN <<"|">> ELSE <<>>)
            \o alt_lengths(p, k + 1, hops)

\* Lines 488-494, the outer loop: what each predicate adds is appended to alt
\* as it is
RECURSIVE alt_all(_, _)
alt_all(uniq, hops) ==
    IF uniq = <<>> THEN <<>>
    ELSE alt_lengths(Head(uniq), 1, hops) \o alt_all(Tail(uniq), hops)

\* Lines 484-495: path = f"({alt})"
constrained_path(uniq, hops) ==
    IF hops = 1
    THEN <<"(">> \o Join([i \in DOMAIN uniq |-> <<Iri(uniq[i])>>], "|") \o <<")">>
    ELSE <<"(">> \o alt_all(uniq, hops) \o <<")">>

\* Lines 502-516: the block of length k, "{ " + " ".join(triples) + " }"
chain_block(src_var, tgt_var, edge_idx, k) ==
    LET mids == [i \in 1..(k - 1) |-> XVar(edge_idx, i)]
        ps == [i \in 1..k |-> PVar(edge_idx, i)]
        triples == [step \in 1..k |->
                      << IF step = 1 THEN src_var ELSE mids[step - 1],
                         ps[step],
                         IF step = k THEN tgt_var ELSE mids[step],
                         "." >>]
    IN  <<"{">> \o Spaced(triples) \o <<"}">>

\* The mutated loop of line 501, range(1, hops): the longest chain is missing
union_blocks_short(src_var, tgt_var, edge_idx, hops) ==
    [k \in 1..(hops - 1) |-> chain_block(src_var, tgt_var, edge_idx, k)]

\* Lines 500-516: for k in range(1, hops + 1): union_blocks.append(...)
union_blocks(src_var, tgt_var, edge_idx, hops) ==
    [k \in 1..hops |-> chain_block(src_var, tgt_var, edge_idx, k)]

\* The outcome of the call: "ok" with the text, or the exception raised
_edge_pattern(src_var, tgt_var, edge, edge_idx) ==
    LET preds == Truthy(edge.predicates)
    IN  IF edge.hops < 1 THEN [status |-> "ValueError", text |-> <<>>]
        ELSE IF preds # <<>>
        THEN [status |-> "ok",
              text |-> <<src_var>> \o constrained_path(Uniq({}, preds), edge.hops)
                          \o <<tgt_var, ".">>]
        ELSE [status |-> "ok",
              text |-> Join(union_blocks(src_var, tgt_var, edge_idx, edge.hops),
                            "UNION")]

\* An edge from node 0 to node 1 at some position of the edge list
InitPattern ==
    /\ heap = << <<>>, <<>>, <<>>, <<>>, <<>>, <<>> >>
    /\ queries = << Query(QueryGraph(1, 2, 3, 4, NoneId, 5), 0, 6) >>
    /\ made = << NoCall >>
    /\ error = NoCall
    /\ \E h \in 0..MaxHops, preds \in PredLists, idx \in 0..MaxEdgeIdx :
          args = [fn |-> "_edge_pattern", edge |-> QueryEdge(0, 1, h, preds),
                  edge_idx |-> idx]
    /\ result = NoResult

\* to_sparql, lines 534-537: the edge is compiled between the variables of
\* its two nodes
EdgePattern ==
    /\ args.fn = "_edge_pattern"
    /\ result = NoResult
    /\ result' = _edge_pattern(VarOf(args.edge.source_id), VarOf(args.edge.target_id),
                               args.edge, args.edge_idx)
    /\ UNCHANGED <<heap, queries, made, error, args>>

NextPattern == EdgePattern

SpecPattern == InitPattern /\ [][NextPattern]_vars

-----------------------------------------------------------------------------
(* C17 *)

\* The pieces of a token sequence between the marks sep; cur is the piece
\* being read
RECURSIVE SplitAt(_, _, _)
SplitAt(toks, sep, cur) ==
    IF toks = <<>> THEN <<cur>>
    ELSE IF Head(toks) = sep THEN <<cur>> \o SplitAt(Tail(toks), sep, <<>>)
    ELSE SplitAt(Tail(toks), sep, Append(cur, Head(toks)))

\* C17: for an edge with a non-empty predicate set and hops = h > 1, the
\* compiled path group consists of exactly the alternatives "p repeated k
\* times joined by /" for every distinct predicate p and every k in 1..h,
\* every two alternatives separated by "|": |distinct predicates| x h
\* alternatives, none mixing predicates.
C17_PathAlternatives ==
    LET preds == args.edge.predicates
        distinct == {preds[i] : i \in DOMAIN preds} \ {""}
        h == args.edge.hops
        group == SubSeq(result.text, 3, Len(result.text) - 3)
        alts == SplitAt(group, "|", <<>>)
    IN  (args.fn = "_edge_pattern" /\ result # NoResult /\ distinct # {} /\ h > 1) =>
            /\ result.status = "ok"
            /\ result.text[2] = "(" /\ result.text[Len(result.text) - 2] = ")"
            /\ Len(alts) = Cardinality(distinct) * h
            /\ {alts[i] : i \in DOMAIN alts}
                  = {Join([i \in 1..k |-> <<Iri(q)>>], "/") : q \in distinct, k \in 1..h}

-----------------------------------------------------------------------------
(* C18 *)

\* The triples of a block "{ s p o . s p o . }", four tokens each
TriplesOf(block) ==
    [t \in 1..((Len(block) - 2) \div 4) |-> SubSeq(block, 4 * t - 2, 4 * t + 1)]

\* C18: for an edge without predicates and hops = h, the compiled pattern is
\* the UNION of exactly h blocks in increasing length; block k (k = 1..h) is
\* a chain of k triples that starts at the source variable, ends at the
\* target variable and passes through k-1 intermediate variables; with h = 1
\* it is a single triple and no UNION.
C18_UnionOfChains ==
    LET h == args.edge.hops
        src == VarOf(args.edge.source_id)
        tgt == VarOf(args.edge.target_id)
        blocks == SplitAt(result.text, "UNION", <<>>)
    IN  (/\ args.fn = "_edge_pattern" /\ result # NoResult
         /\ Truthy(args.edge.predicates) = <<>> /\ h >= 1) =>
            /\ result.status = "ok"
            /\ Len(blocks) = h
            /\ h = 1 => Len(result.text) = 6
            /\ \A k \in 1..h :
                  LET b == blocks[k]
                      tr == TriplesOf(b)
                      mids == {tr[t][3] : t \in 1..(k - 1)}
                  IN  /\ Len(b) = 4 * k + 2
                      /\ b[1] = "{" /\ b[Len(b)] = "}"
                      /\ \A t \in 1..k : tr[t][4] = "."
                      /\ tr[1][1] = src
                      /\ tr[k][3] = tgt
                      /\ \A t \in 1..(k - 1) : tr[t + 1][1] = tr[t][3]
                      /\ Cardinality(mids) = k - 1
                      /\ mids \cap {src, tgt} = {}

\* An edge without predicates and with three hops has been compiled.
C18_Witness ==
    /\ args.fn = "_edge_pattern" /\ result # NoResult
    /\ args.edge.predicates = <<>> /\ args.edge.hops = 3
    /\ Len(SplitAt(result.text, "UNION", <<>>)) = 3

-----------------------------------------------------------------------------
(* matcher.py: text normalisation *)

\* A str is the sequence of its characters, a character a one-character
\* string; "U+00E9" stands for the one character e with acute accent and
\* "U+FB01" for the one character ligature fi.
Lowers == << "a", "b", "c", "d", "e", "f", "g", "h", "i", "j", "k", "l", "m",
             "n", "o", "p", "q", "r", "s", "t", "u", "v", "w", "x", "y", "z" >>
Uppers == << "A", "B", "C", "D", "E", "F", "G", "H", "I", "J", "K", "L", "M",
             "N", "O", "P", "Q", "R", "S", "T", "U", "V", "W", "X", "Y", "Z" >>
Digits == {"0", "1", "2", "3", "4", "5", "6", "7", "8", "9"}

IsLower(c) == \E i \in DOMAIN Lowers : Lowers[i] = c
IsUpper(c) == \E i \in DOMAIN Uppers : Uppers[i] = c
IsSpace(c) == c \in {" ", "\t", "\n"}

\* What _WORD_RE, [A-Za-z0-9]+, matches
IsWordChar(c) == IsLower(c) \/ IsUpper(c) \/ c \in Digits

\* s.strip()
RECURSIVE LStrip(_)
LStrip(s) == IF s # <<>> /\ IsSpace(Head(s)) THEN LStrip(Tail(s)) ELSE s
RECURSIVE RStrip(_)
RStrip(s) ==
    IF s # <<>> /\ IsSpace(s[Len(s)]) THEN RStrip(SubSeq(s, 1, Len(s) - 1)) ELSE s
Strip(s) == RStrip(LStrip(s))

\* unicodedata.normalize("NFKC", s): the ligature is replaced by its letters
RECURSIVE NFKC(_)
NFKC(s) ==
    IF s = <<>> THEN <<>>
    ELSE (IF Head(s) = "U+FB01" THEN <<"f", "i">> ELSE <<Head(s)>>) \o NFKC(Tail(s))

\* NFKD, then the combining marks dropped
RECURSIVE _strip_diacritics(_)
_strip_diacritics(s) ==
    IF s = <<>> THEN <<>>
    ELSE (IF Head(s) = "U+00E9" THEN <<"e">>
          ELSE IF Head(s) = "U+FB01" THEN <<"f", "i">>
          ELSE <<Head(s)>>) \o _strip_diacritics(Tail(s))

\* _CAMEL_SPLIT_RE.sub(" ", s): a space between a lower-case letter or digit
\* and the upper-case letter that follows it
RECURSIVE CamelSplit(_)
CamelSplit(s) ==
    IF Len(s) < 2 THEN s
    ELSE IF (IsLower(s[1]) \/ s[1] \in Digits) /\ IsUpper(s[2])
         THEN <<s[1], " ">> \o CamelSplit(Tail(s))
         ELSE <<s[1]>> \o CamelSplit(Tail(s))

\* s.replace("_", " ").replace("-", " ")
Unseparate(s) == [i \in DOMAIN s |-> IF s[i] \in {"_", "-"} THEN " " ELSE s[i]]

_split_identifier(s) == Unseparate(CamelSplit(s))

\* s.lower()
LowerChar(c) ==
    IF IsUpper(c) THEN Lowers[CHOOSE i \in DOMAIN Uppers : Uppers[i] = c] ELSE c
LowerStr(s) == [i \in DOMAIN s |-> LowerChar(s[i])]

\* _WORD_RE.findall(s): the maximal runs of word characters; cur is the run
\* being read
RECURSIVE FindWords(_, _)
FindWords(s, cur) ==
    IF s = <<>> THEN (IF cur = <<>> THEN <<>> ELSE <<cur>>)
    ELSE IF IsWordChar(Head(s)) THEN FindWords(Tail(s), Append(cur, Head(s)))
    ELSE (IF cur = <<>> THEN <<>> ELSE <<cur>>) \o FindWords(Tail(s), <<>>)

\* Runs of other characters collapsed to one space, the ends not trimmed
normalize_text_untrimmed(s) ==
    LET t == LowerStr(_split_identifier(_strip_diacritics(NFKC(Strip(s)))))
    IN  (IF t # <<>> /\ ~IsWordChar(t[1]) THEN <<" ">> ELSE <<>>)
        \o Join(FindWords(t, <<>>), " ")
        \o (IF t # <<>> /\ ~IsWordChar(t[Len(t)]) THEN <<" ">> ELSE <<>>)

normalize_text(s) ==
    Join(FindWords(LowerStr(_split_identifier(_strip_diacritics(NFKC(Strip(s))))),
                   <<>>),
         " ")

\* s2.split(), then a final "s" dropped from every token longer than 3
tokenize(s) ==
    LET toks == FindWords(normalize_text(s), <<>>)
    IN  [i \in DOMAIN toks |->
            IF Len(toks[i]) > 3 /\ toks[i][Len(toks[i])] = "s"
            THEN SubSeq(toks[i], 1, Len(toks[i]) - 1)
            ELSE toks[i]]

-----------------------------------------------------------------------------
(* matcher.py: the similarity signals *)

\* A float is kept as the exact fraction n/d, d > 0, it is the rounding of.
\* in lowest terms
RECURSIVE Gcd(_, _)
Gcd(a, b) == IF b = 0 THEN a ELSE Gcd(b, a % b)
Frac(n, d) ==
    LET g == Gcd(IF n < 0 THEN -n ELSE n, d)
    IN  [n |-> n \div g, d |-> d \div g]
FLt(x, y) == x.n * y.d < y.n * x.d
FLe(x, y) == x.n * y.d <= y.n * x.d
FEq(x, y) == x.n * y.d = y.n * x.d
FAdd(x, y) == Frac(x.n * y.d + y.n * x.d, x.d * y.d)
FMul(x, y) == Frac(x.n * y.n, x.d * y.d)

Min2(a, b) == IF a <= b THEN a ELSE b

ToSet(seq) == {seq[i] : i \in DOMAIN seq}

jaccard(a, b) ==
    LET sa == ToSet(a)
        sb == ToSet(b)
    IN  IF sa = {} /\ sb = {} THEN Frac(1, 1)
        ELSE IF sa = {} \/ sb = {} THEN Frac(0, 1)
        ELSE Frac(Cardinality(sa \cap sb), Cardinality(sa \cup sb))

\* The number of positions from a[i], b[j] on, below ahi and bhi, at which a
\* and b agree; positions are counted from 1, the bounds are exclusive
RECURSIVE RunLen(_, _, _, _, _, _)
RunLen(a, b, i, j, ahi, bhi) ==
    IF i < ahi /\ j < bhi /\ a[i] = b[j] THEN 1 + RunLen(a, b, i + 1, j + 1, ahi, bhi)
    ELSE 0

\* SequenceMatcher.find_longest_match without junk: the longest common block
\* of a[alo:ahi] and b[blo:bhi], the one starting earliest in a and, among
\* those, earliest in b
find_longest_match(a, b, alo, ahi, blo, bhi) ==
    LET starts == (alo..(ahi - 1)) \X (blo..(bhi - 1))
        len(p) == RunLen(a, b, p[1], p[2], ahi, bhi)
        best == CHOOSE p \in starts :
                    \A q \in starts :
                        \/ len(q) < len(p)
                        \/ len(q) = len(p) /\ (p[1] < q[1] \/ (p[1] = q[1] /\ p[2] <= q[2]))
    IN  IF starts = {} THEN [i |-> alo, j |-> blo, k |-> 0]
        ELSE [i |-> best[1], j |-> best[2], k |-> len(best)]

\* SequenceMatcher.get_matching_blocks, summed: the block found, and the
\* blocks found to its left and to its right
RECURSIVE matching_size(_, _, _, _, _, _)
matching_size(a, b, alo, ahi, blo, bhi) ==
    LET m == find_longest_match(a, b, alo, ahi, blo, bhi)
    IN  IF m.k = 0 THEN 0
        ELSE m.k
             + (IF alo < m.i /\ blo < m.j
                THEN matching_size(a, b, alo, m.i, blo, m.j) ELSE 0)
             + (IF m.i + m.k < ahi /\ m.j + m.k < bhi
                THEN matching_size(a, b, m.i + m.k, ahi, m.j + m.k, bhi) ELSE 0)

\* SequenceMatcher(None, a, b).ratio() = 2.0 * matches / (len(a) + len(b))
seq_ratio(a, b) ==
    IF a = <<>> /\ b = <<>> THEN Frac(1, 1)
    ELSE IF a = <<>> \/ b = <<>> THEN Frac(0, 1)
    ELSE Frac(2 * matching_size(a, b, 1, Len(a) + 1, 1, Len(b) + 1), Len(a) + Len(b))

RECURSIVE SeqMin(_)
SeqMin(row) == IF Len(row) = 1 THEN row[1] ELSE Min2(row[1], SeqMin(Tail(row)))

\* Lines 85-94: row i of d from column j on; row[c + 1] is d[i][c], prev1 is
\* row i-1 and prev2 row i-2
RECURSIVE dl_row(_, _, _, _, _, _, _)
dl_row(a, b, i, j, prev2, prev1, row) ==
    IF j > Len(b) THEN row
    ELSE LET cost == IF a[i] = b[j] THEN 0 ELSE 1
             basic == Min2(Min2(prev1[j + 1] + 1, row[j] + 1), prev1[j] + cost)
             cell == IF i > 1 /\ j > 1 /\ a[i] = b[j - 1] /\ a[i - 1] = b[j]
                     THEN Min2(basic, prev2[j - 1] + 1)
                     ELSE basic
         IN dl_row(a, b, i, j + 1, prev2, prev1, Append(row, cell))

\* The rows with the early exit taken on the last cell of the row, d[i][lb],
\* in place of the minimum of the row
RECURSIVE dl_rows_last_cell(_, _, _, _, _, _)
dl_rows_last_cell(a, b, i, prev2, prev1, max_dist) ==
    IF i > Len(a) THEN prev1[Len(b) + 1]
    ELSE LET row == dl_row(a, b, i, 1, prev2, prev1, <<i>>)
         IN IF row[Len(row)] > max_dist /\ max_dist # NoneId THEN max_dist + 1
            ELSE dl_rows_last_cell(a, b, i + 1, prev1, row, max_dist)

\* Lines 83-99: the rows from i on, with the early exit after each row (the
\* minimum is taken first so that each row is computed before the next)
RECURSIVE dl_rows(_, _, _, _, _, _)
dl_rows(a, b, i, prev2, prev1, max_dist) ==
    IF i > Len(a) THEN prev1[Len(b) + 1]
    ELSE LET row == dl_row(a, b, i, 1, prev2, prev1, <<i>>)
         IN IF SeqMin(row) > max_dist /\ max_dist # NoneId THEN max_dist + 1
            ELSE dl_rows(a, b, i + 1, prev1, row, max_dist)

\* max_dist is NoneId for None
damerau_levenshtein(a, b, max_dist) ==
    LET gap == IF Len(a) >= Len(b) THEN Len(a) - Len(b) ELSE Len(b) - Len(a)
    IN  IF a = b THEN 0
        ELSE IF Len(a) = 0 THEN Len(b)
        ELSE IF Len(b) = 0 THEN Len(a)
        ELSE IF max_dist # NoneId /\ gap > max_dist THEN max_dist + 1
        ELSE dl_rows(a, b, 1, <<>>, [c \in 1..(Len(b) + 1) |-> c - 1], max_dist)

\* "".join(t[0] for t in tokens if t)
initialism(tokens) ==
    LET full == SelectSeq(tokens, LAMBDA t : t # <<>>)
    IN  [i \in DOMAIN full |-> full[i][1]]

-----------------------------------------------------------------------------
(* matcher.py: ConceptMatcher *)

MatchResult(uri, kind, label, score, reason, matched_surface) ==
    [uri |-> uri, kind |-> kind, label |-> label, score |-> score,
     reason |-> reason, matched_surface |-> matched_surface]

\* Lines 143-151, one concept: a row of _compiled for the label and every
\* other surface, each once, in order
compile_concept(uri, meta) ==
    LET kind == IF meta.kind # "" THEN meta.kind ELSE "other"
        label == IF meta.label # <<>> THEN meta.label ELSE uri
        surfaces2 == Uniq({}, <<label>> \o meta.surfaces)
    IN  [i \in DOMAIN surfaces2 |->
            [uri |-> uri, kind |-> kind, label |-> label, surf |-> surfaces2[i],
             toks |-> tokenize(surfaces2[i]), ns |-> normalize_text(surfaces2[i])]]

RECURSIVE compile_concepts(_)
compile_concepts(concepts) ==
    IF concepts = <<>> THEN <<>>
    ELSE compile_concept(Head(concepts)[1], Head(concepts)[2])
            \o compile_concepts(Tail(concepts))

\* Lines 138-139: {normalize_text(k): [normalize_text(x) for x in v] ...}
RECURSIVE compile_abbrev(_, _)
compile_abbrev(acc, abbrev) ==
    IF abbrev = <<>> THEN acc
    ELSE compile_abbrev(
             DSet(acc, normalize_text(Head(abbrev)[1]),
                  [i \in DOMAIN Head(abbrev)[2] |-> normalize_text(Head(abbrev)[2][i])]),
             Tail(abbrev))

\* ConceptMatcher(lexicon)
ConceptMatcher(lexicon) ==
    [_abbrev |-> compile_abbrev(<<>>, lexicon.abbrev),
     _compiled |-> compile_concepts(lexicon.concepts)]

expand_abbrev(self, query) ==
    LET qn == normalize_text(query)
    IN  IF qn = <<>> THEN <<>>
        ELSE IF DHas(self._abbrev, qn) THEN DGet(self._abbrev, qn)
        ELSE <<>>

\* Lines 174-176: (raw, normalized, tokens) for the query and its expansions
query_forms(self, query) ==
    LET exps == expand_abbrev(self, query)
    IN  << [raw |-> query, norm |-> normalize_text(query), toks |-> tokenize(query)] >>
        \o [i \in DOMAIN exps |->
              [raw |-> exps[i], norm |-> normalize_text(exps[i]),
               toks |-> tokenize(exps[i])]]

\* Lines 192-223: the signals of one query form against one surface
signals(form, c) ==
    LET tok_overlap == jaccard(form.toks, c.toks)
        phrase_sim == seq_ratio(form.norm, c.ns)
        q_init == initialism(form.toks)
        ab == q_init # <<>> /\ q_init = initialism(c.toks)
        maxd == IF Len(form.norm) <= 10 THEN 2 ELSE 3
        near == FLt(Frac(70, 100), phrase_sim) \/ FLt(Frac(50, 100), tok_overlap)
        d == damerau_levenshtein(form.norm, c.ns, maxd)
        edit == IF near /\ d <= maxd THEN (maxd - d) * 3 ELSE 0
        pen == IF Len(c.toks) >= Len(form.toks) + 3 /\ FLt(tok_overlap, Frac(80, 100))
               THEN 8 ELSE 0
    IN  [tok_overlap |-> tok_overlap, phrase_sim |-> phrase_sim, ab |-> ab,
         score |-> FAdd(FAdd(FMul(Frac(62, 100), tok_overlap),
                             FMul(Frac(32, 100), phrase_sim)),
                        Frac((IF ab THEN 12 ELSE 0) + edit - pen, 100))]

\* The inner loop with both updates of scored replaced by a plain store
visit_overwrite(scored, form, c, query, restrict_kinds, min_score) ==
    LET key == <<c.uri, c.kind>>
        exact == MatchResult(c.uri, c.kind, c.label, Frac(1, 1), "exact_normalized",
                             c.surf)
        sig == signals(form, c)
        reason == IF form.raw # query THEN "abbrev_expansion"
                  ELSE IF sig.ab THEN "initialism_match" ELSE "fuzzy"
        res == MatchResult(c.uri, c.kind, c.label, sig.score, reason, c.surf)
    IN  IF restrict_kinds # {} /\ c.kind \notin restrict_kinds THEN scored
        ELSE IF form.norm = c.ns /\ form.norm # <<>> THEN DSet(scored, key, exact)
        ELSE IF FEq(sig.tok_overlap, Frac(0, 1)) /\ FLt(sig.phrase_sim, Frac(85, 100))
        THEN scored
        ELSE IF FLt(sig.score, min_score) THEN scored
        ELSE DSet(scored, key, res)

\* The inner loop without lines 225-227
visit_no_guardrail(scored, form, c, query, restrict_kinds, min_score) ==
    LET key == <<c.uri, c.kind>>
        exact == MatchResult(c.uri, c.kind, c.label, Frac(1, 1), "exact_normalized",
                             c.surf)
        sig == signals(form, c)
        reason == IF form.raw # query THEN "abbrev_expansion"
                  ELSE IF sig.ab THEN "initialism_match" ELSE "fuzzy"
        res == MatchResult(c.uri, c.kind, c.label, sig.score, reason, c.surf)
    IN  IF restrict_kinds # {} /\ c.kind \notin restrict_kinds THEN scored
        ELSE IF form.norm = c.ns /\ form.norm # <<>>
        THEN IF DHas(scored, key) /\ ~FLt(DGet(scored, key).score, exact.score)
             THEN scored
             ELSE DSet(scored, key, exact)
        ELSE IF FLt(sig.score, min_score) THEN scored
        ELSE IF ~DHas(scored, key) \/ FLt(DGet(scored, key).score, res.score)
        THEN DSet(scored, key, res)
        ELSE scored

\* Lines 183-241: one round of the inner loop; scored is the dict
\* (uri, kind) -> MatchResult
visit(scored, form, c, query, restrict_kinds, min_score) ==
    LET key == <<c.uri, c.kind>>
        exact == MatchResult(c.uri, c.kind, c.label, Frac(1, 1), "exact_normalized",
                             c.surf)
        sig == signals(form, c)
        reason == IF form.raw # query THEN "abbrev_expansion"
                  ELSE IF sig.ab THEN "initialism_match" ELSE "fuzzy"
        res == MatchResult(c.uri, c.kind, c.label, sig.score, reason, c.surf)
    IN  IF restrict_kinds # {} /\ c.kind \notin restrict_kinds THEN scored
        ELSE IF form.norm = c.ns /\ form.norm # <<>>
        THEN \* max(scored.get(key, res), res, key=score): the first of the largest
             IF DHas(scored, key) /\ ~FLt(DGet(scored, key).score, exact.score)
             THEN scored
             ELSE DSet(scored, key, exact)
        ELSE IF FEq(sig.tok_overlap, Frac(0, 1)) /\ FLt(sig.phrase_sim, Frac(85, 100))
        THEN scored
        ELSE IF FLt(sig.score, min_score) THEN scored
        ELSE IF ~DHas(scored, key) \/ FLt(DGet(scored, key).score, res.score)
        THEN DSet(scored, key, res)
        ELSE scored

\* Lines 180-182: the loops, every form against every row of _compiled;
\* rows are the rows still to visit for the first of forms
RECURSIVE visit_all(_, _, _, _, _, _, _)
visit_all(scored, forms, rows, self, query, restrict_kinds, min_score) ==
    IF forms = <<>> THEN scored
    ELSE IF rows = <<>>
    THEN visit_all(scored, Tail(forms), self._compiled, self, query, restrict_kinds,
                   min_score)
    ELSE visit_all(visit(scored, Head(forms), Head(rows), query, restrict_kinds,
                         min_score),
                   forms, Tail(rows), self, query, restrict_kinds, min_score)

\* sorted(..., key=score, reverse=True): a stable sort, r goes behind every
\* result that is not smaller
RECURSIVE insert_desc(_, _)
insert_desc(sorted, r) ==
    IF sorted = <<>> THEN <<r>>
    ELSE IF FLt(Head(sorted).score, r.score) THEN <<r>> \o sorted
    ELSE <<Head(sorted)>> \o insert_desc(Tail(sorted), r)

RECURSIVE sorted_desc(_, _)
sorted_desc(acc, values) ==
    IF values = <<>> THEN acc
    ELSE sorted_desc(insert_desc(acc, Head(values)), Tail(values))

\* seq[:n]; a negative n counts from the end
Slice(seq, n) ==
    IF n >= 0 THEN SubSeq(seq, 1, Min2(n, Len(seq)))
    ELSE SubSeq(seq, 1, Len(seq) + n)

match(self, query, restrict_kinds, top_k, min_score) ==
    LET scored == visit_all(<<>>, query_forms(self, query), self._compiled, self,
                            query, restrict_kinds, min_score)
    IN  Slice(sorted_desc(<<>>, [i \in DOMAIN scored |-> scored[i][2]]), top_k)

-----------------------------------------------------------------------------
(* The caller of match *)

\* The strings drawn as queries, labels, surfaces and identifiers
S_empty == <<>>
S_valve == <<"v", "a", "l", "v", "e">>
S_Valve == <<"V", "a", "l", "v", "e">>
S_valves == <<"v", "a", "l", "v", "e", "s">>
S_Valves == <<"V", "a", "l", "v", "e", "s">>
S_hasValve == <<"h", "a", "s", "V", "a", "l", "v", "e">>
S_pump == <<"p", "u", "m", "p">>
S_ahu == <<"a", "h", "u">>
S_AHU == <<"A", "H", "U">>
S_air_handling_unit == <<"a", "i", "r", " ", "h", "a", "n", "d", "l", "i", "n", "g", " ", "u", "n", "i", "t">>
S_Air_Handling_Unit == <<"A", "i", "r", "_", "H", "a", "n", "d", "l", "i", "n", "g", "_", "U", "n", "i", "t">>
U1 == <<"u", "1">>
U2 == <<"u", "2">>
U3 == <<"u", "3">>
U4 == <<"u", "4">>
U5 == <<"u", "5">>

\* Lexicons: "abbrev" and "concepts" are dicts, kept in insertion order; a
\* missing "kind" is "" and a missing "label" the empty string.
\* Two concepts whose labels differ by a plural "s".
LexValves ==
    [abbrev |-> <<>>,
     concepts |-> << <<U1, [kind |-> "class", label |-> S_Valve, surfaces |-> <<>>]>>,
                     <<U2, [kind |-> "class", label |-> S_Valves, surfaces |-> <<>>]>> >>]
\* A concept with its plural and its own label among its surfaces, a
\* predicate, and a concept with neither kind nor label.
LexSurfaces ==
    [abbrev |-> <<>>,
     concepts |-> << <<U1, [kind |-> "class", label |-> S_Valve,
                            surfaces |-> <<S_valves, S_Valve>>]>>,
                     <<U3, [kind |-> "predicate", label |-> S_hasValve,
                            surfaces |-> <<>>]>>,
                     <<U4, [kind |-> "", label |-> S_empty, surfaces |-> <<S_pump>>]>> >>]
\* The air handling unit, with and without "AHU" in the abbreviation table.
LexAhuAbbrev ==
    [abbrev |-> << <<S_AHU, <<S_air_handling_unit>>>> >>,
     concepts |-> << <<U5, [kind |-> "class", label |-> S_Air_Handling_Unit,
                            surfaces |-> <<S_air_handling_unit>>]>> >>]
LexAhuPlain ==
    [abbrev |-> <<>>,
     concepts |-> << <<U5, [kind |-> "class", label |-> S_Air_Handling_Unit,
                            surfaces |-> <<S_air_handling_unit>>]>> >>]

Lexicons == {LexValves, LexSurfaces, LexAhuAbbrev, LexAhuPlain}
MatchQueries == {S_empty, S_valve, S_Valves, S_ahu, S_pump}
\* restrict_kinds: {} for None
RestrictKinds == {{}, {"predicate"}}
TopKs == {-1, 0, 1, 5}
\* min_score: the default 0.55, and 0.0 and 1.5
MinScores == {Frac(55, 100), Frac(0, 100), Frac(150, 100)}

InitMatch ==
    /\ heap = << <<>>, <<>>, <<>>, <<>>, <<>>, <<>> >>
    /\ queries = << Query(QueryGraph(1, 2, 3, 4, NoneId, 5), 0, 6) >>
    /\ made = << NoCall >>
    /\ error = NoCall
    /\ \E lx \in Lexicons, q \in MatchQueries, rk \in RestrictKinds,
          k \in TopKs, ms \in MinScores :
          args = [fn |-> "match", lexicon |-> lx, query |-> q, restrict_kinds |-> rk,
                  top_k |-> k, min_score |-> ms]
    /\ result = NoResult

\* ConceptMatcher(lexicon).match(query, restrict_kinds=..., top_k=..., min_score=...)
Match ==
    /\ args.fn = "match"
    /\ result = NoResult
    /\ result' = [status |-> "ok",
                  out |-> match(ConceptMatcher(args.lexicon), args.query,
                                args.restrict_kinds, args.top_k, args.min_score)]
    /\ UNCHANGED <<heap, queries, made, error, args>>

NextMatch == Match

SpecMatch == InitMatch /\ [][NextMatch]_vars

-----------------------------------------------------------------------------
(* C19 *)

\* C19: matcher exactness.  For a non-empty query whose normalized text
\* equals the normalized label of a concept of an allowed kind, match with
\* top_k >= 1 returns that concept with score exactly 1.0 and as the first
\* element.
C19_ExactFirst ==
    (/\ args.fn = "match" /\ result # NoResult
     /\ args.top_k >= 1 /\ normalize_text(args.query) # <<>>) =>
        \A i \in DOMAIN args.lexicon.concepts :
            LET uri == args.lexicon.concepts[i][1]
                meta == args.lexicon.concepts[i][2]
                kind == IF meta.kind # "" THEN meta.kind ELSE "other"
                label == IF meta.label # <<>> THEN meta.label ELSE uri
            IN  (/\ normalize_text(label) = normalize_text(args.query)
                 /\ (args.restrict_kinds = {} \/ kind \in args.restrict_kinds)) =>
                    /\ result.out # <<>>
                    /\ result.out[1].uri = uri
                    /\ result.out[1].kind = kind
                    /\ FEq(result.out[1].score, Frac(1, 1))

-----------------------------------------------------------------------------
(* C20 *)

\* C20: matcher threshold.  Every MatchResult match returns has a score of
\* at least min_score, exact matches included.
C20_Threshold ==
    (args.fn = "match" /\ result # NoResult) =>
        \A i \in DOMAIN result.out : FLe(args.min_score, result.out[i].score)

-----------------------------------------------------------------------------
(* C21 *)

\* C21: result-size bound.  For every integer top_k, match returns at most
\* max(top_k, 0) results; top_k = 0 and every negative top_k give the empty
\* list.
C21_SizeBound ==
    (args.fn = "match" /\ result # NoResult) =>
        Len(result.out) <= (IF args.top_k > 0 THEN args.top_k ELSE 0)

-----------------------------------------------------------------------------
(* C22 *)

\* The query forms and the rows of _compiled of the call in args
FormsOfCall == query_forms(ConceptMatcher(args.lexicon), args.query)
RowsOfCall == ConceptMatcher(args.lexicon)._compiled

\* Form f against row c is a pair that can have produced the result r: the
\* row carries r's identifier, kind and surface, and r is either the exact
\* result of the pair or has the pair's composite score and reason.
Produces(f, c, r) ==
    /\ c.uri = r.uri /\ c.kind = r.kind /\ c.surf = r.matched_surface
    /\ IF f.norm = c.ns /\ f.norm # <<>>
       THEN r.reason = "exact_normalized"
       ELSE /\ r.reason # "exact_normalized"
            /\ FEq(signals(f, c).score, r.score)
            /\ (r.reason = "abbrev_expansion") = (f.raw # args.query)

\* Lines 225-227: zero token overlap and phrase similarity below 0.85
Unrelated(f, c) ==
    /\ FEq(jaccard(f.toks, c.toks), Frac(0, 1))
    /\ FLt(seq_ratio(f.norm, c.ns), Frac(85, 100))

\* C22: matcher guardrail.  Every returned MatchResult has a producing query
\* form, and no producing form has token overlap 0 with the matched surface
\* together with phrase similarity below 0.85, whatever the composite score
\* and min_score.
C22_Guardrail ==
    (args.fn = "match" /\ result # NoResult) =>
        \A i \in DOMAIN result.out :
            /\ \E j \in DOMAIN FormsOfCall, k \in DOMAIN RowsOfCall :
                   Produces(FormsOfCall[j], RowsOfCall[k], result.out[i])
            /\ \A j \in DOMAIN FormsOfCall, k \in DOMAIN RowsOfCall :
                   Produces(FormsOfCall[j], RowsOfCall[k], result.out[i])
                       => ~Unrelated(FormsOfCall[j], RowsOfCall[k])

\* A call that returned a result although a form and a surface of an allowed
\* kind with no shared token and low phrase similarity had a composite score
\* of at least min_score.
C22_Witness ==
    /\ args.fn = "match" /\ result # NoResult /\ result.out # <<>>
    /\ \E j \in DOMAIN FormsOfCall, k \in DOMAIN RowsOfCall :
          /\ args.restrict_kinds = {} \/ RowsOfCall[k].kind \in args.restrict_kinds
          /\ Unrelated(FormsOfCall[j], RowsOfCall[k])
          /\ FLe(args.min_score, signals(FormsOfCall[j], RowsOfCall[k]).score)

-----------------------------------------------------------------------------
(* C23 *)

\* C23: the "ahu" scenario.  Matching the query "ahu" with the default
\* min_score against a lexicon with a concept that has the surface
\* "air handling unit" returns that concept with reason "initialism_match"
\* or "abbrev_expansion" and a score of at least 0.55, with the abbreviation
\* in the table and without it.
C23_AhuScenario ==
    (/\ args.fn = "match" /\ result # NoResult
     /\ args.query = S_ahu /\ args.min_score = Frac(55, 100)
     /\ args.top_k >= 1) =>
        \A k \in DOMAIN RowsOfCall :
            (/\ RowsOfCall[k].surf = S_air_handling_unit
             /\ (args.restrict_kinds = {} \/ RowsOfCall[k].kind \in args.restrict_kinds)) =>
                \E i \in DOMAIN result.out :
                    /\ result.out[i].uri = RowsOfCall[k].uri
                    /\ result.out[i].reason \in {"initialism_match", "abbrev_expansion"}
                    /\ FLe(Frac(55, 100), result.out[i].score)

-----------------------------------------------------------------------------
(* C24 *)

\* The score of form f against row c: 1.0 on the exact branch (lines
\* 187-188), the composite score otherwise (lines 217-223)
CandidateScore(f, c) ==
    IF f.norm = c.ns /\ f.norm # <<>> THEN Frac(1, 1) ELSE signals(f, c).score

\* Form f against row c is an accepted candidate: the kind is allowed and
\* the pair is exact, or it passes the guardrail and the threshold
Accepted(f, c) ==
    /\ args.restrict_kinds = {} \/ c.kind \in args.restrict_kinds
    /\ \/ f.norm = c.ns /\ f.norm # <<>>
       \/ ~Unrelated(f, c) /\ FLe(args.min_score, signals(f, c).score)

\* C24: deduplication.  match returns at most one result per (identifier,
\* kind) pair, and the score of that result is the largest score of the
\* accepted candidates of the pair over every query form and every surface,
\* in whatever order they are visited.
C24_Dedup ==
    (args.fn = "match" /\ result # NoResult) =>
        /\ \A i, j \in DOMAIN result.out :
               (/\ result.out[i].uri = result.out[j].uri
                /\ result.out[i].kind = result.out[j].kind) => i = j
        /\ \A i \in DOMAIN result.out :
               LET r == result.out[i]
                   Mine(j, k) == /\ RowsOfCall[k].uri = r.uri
                                 /\ RowsOfCall[k].kind = r.kind
                                 /\ Accepted(FormsOfCall[j], RowsOfCall[k])
               IN  /\ \E j \in DOMAIN FormsOfCall, k \in DOMAIN RowsOfCall :
                          /\ Mine(j, k)
                          /\ FEq(CandidateScore(FormsOfCall[j], RowsOfCall[k]), r.score)
                   /\ \A j \in DOMAIN FormsOfCall, k \in DOMAIN RowsOfCall :
                          Mine(j, k) =>
                              FLe(CandidateScore(FormsOfCall[j], RowsOfCall[k]), r.score)

\* A returned pair with two accepted candidates of which the one visited
\* first has the larger score.
C24_Witness ==
    /\ args.fn = "match" /\ result # NoResult
    /\ \E i \in DOMAIN result.out, j \in DOMAIN FormsOfCall :
          \E k1, k2 \in DOMAIN RowsOfCall :
              /\ k1 < k2
              /\ RowsOfCall[k1].uri = result.out[i].uri
              /\ RowsOfCall[k2].uri = result.out[i].uri
              /\ Accepted(FormsOfCall[j], RowsOfCall[k1])
              /\ Accepted(FormsOfCall[j], RowsOfCall[k2])
              /\ FLt(CandidateScore(FormsOfCall[j], RowsOfCall[k2]),
                     CandidateScore(FormsOfCall[j], RowsOfCall[k1]))

-----------------------------------------------------------------------------
(* The caller of normalize_text *)

MaxStrLen == 4
\* The characters strings are drawn from: a lower-case and an upper-case
\* letter, a digit, a delimiter, white space, punctuation, an accented
\* letter and a ligature
NormChars == {"a", "B", "1", "_", " ", "!", "U+00E9", "U+FB01"}
NormStrings == UNION {[1..n -> NormChars] : n \in 0..MaxStrLen}

InitNormalize ==
    /\ heap = << <<>>, <<>>, <<>>, <<>>, <<>>, <<>> >>
    /\ queries = << Query(QueryGraph(1, 2, 3, 4, NoneId, 5), 0, 6) >>
    /\ made = << NoCall >>
    /\ error = NoCall
    /\ \E s \in NormStrings : args = [fn |-> "normalize_text", s |-> s]
    /\ result = NoResult

\* normalize_text(s)
Normalize ==
    /\ args.fn = "normalize_text"
    /\ result = NoResult
    /\ result' = [status |-> "ok", out |-> normalize_text(args.s)]
    /\ UNCHANGED <<heap, queries, made, error, args>>

\* normalize_text applied to what the first call returned
NormalizeAgain ==
    /\ args.fn = "normalize_text"
    /\ result # NoResult /\ result.status = "ok"
    /\ result' = [status |-> "again", out |-> normalize_text(result.out),
                  first |-> result.out]
    /\ UNCHANGED <<heap, queries, made, error, args>>

NextNormalize == Normalize \/ NormalizeAgain

SpecNormalize == InitNormalize /\ [][NextNormalize]_vars

-----------------------------------------------------------------------------
(* C25 *)

\* C25: normalization is idempotent.  For every string s,
\* normalize_text(normalize_text(s)) = normalize_text(s).
C25_Idempotent ==
    (args.fn = "normalize_text" /\ result # NoResult /\ result.status = "again") =>
        result.out = result.first

\* A second normalization of a text the first one changed: camel case was
\* split, a delimiter replaced and the case lowered.
C25_Witness ==
    /\ args.fn = "normalize_text" /\ result # NoResult /\ result.status = "again"
    /\ args.s = <<"a", "B", "_", "1">>
    /\ result.first = <<"a", " ", "b", " ", "1">>

-----------------------------------------------------------------------------
(* The caller of damerau_levenshtein *)

MaxEditLen == 4
EditChars == {"a", "b", "c"}
EditStrings == UNION {[1..n -> EditChars] : n \in 0..MaxEditLen}
\* max_dist: the bounds match uses, 2 and 3, the smaller ones and a negative
\* one
MaxDists == {-2, 0, 1, 2, 3}

InitEdit ==
    /\ heap = << <<>>, <<>>, <<>>, <<>>, <<>>, <<>> >>
    /\ queries = << Query(QueryGraph(1, 2, 3, 4, NoneId, 5), 0, 6) >>
    /\ made = << NoCall >>
    /\ error = NoCall
    /\ \E a \in EditStrings, b \in EditStrings, m \in MaxDists :
          args = [fn |-> "damerau_levenshtein", a |-> a, b |-> b, max_dist |-> m]
    /\ result = NoResult

\* damerau_levenshtein(a, b, max_dist=m)
EditDistance ==
    /\ args.fn = "damerau_levenshtein"
    /\ result = NoResult
    /\ result' = [status |-> "ok",
                  out |-> damerau_levenshtein(args.a, args.b, args.max_dist)]
    /\ UNCHANGED <<heap, queries, made, error, args>>

NextEdit == EditDistance

SpecEdit == InitEdit /\ [][NextEdit]_vars

-----------------------------------------------------------------------------
(* C26 *)

\* damerau_levenshtein(a, b) of the call in args, max_dist left at None
Unbounded == damerau_levenshtein(args.a, args.b, NoneId)

\* C26: the bounded edit distance is sound.  damerau_levenshtein(a, b,
\* max_dist) is the distance computed without a bound whenever that distance
\* is at most max_dist, and a value above max_dist otherwise.
C26_BoundedSound ==
    (args.fn = "damerau_levenshtein" /\ result # NoResult) =>
        IF Unbounded <= args.max_dist
        THEN result.out = Unbounded
        ELSE result.out > args.max_dist

\* The loop was left early, on a row whose minimum is above
\* the bound, for strings whose lengths differ by no more than the bound and
\* whose distance is above max_dist + 1.
C26_Witness ==
    /\ args.fn = "damerau_levenshtein" /\ result # NoResult
    /\ args.max_dist >= 1
    /\ Len(args.a) - Len(args.b) <= args.max_dist
    /\ Len(args.b) - Len(args.a) <= args.max_dist
    /\ result.out = args.max_dist + 1
    /\ Unbounded > args.max_dist + 1

-----------------------------------------------------------------------------
(* C27 *)

\* The intermediate-node and predicate variables of a block: its tokens
\* other than the braces, the dots and the two end variables
ChainVars(block, src, tgt) ==
    {block[i] : i \in DOMAIN block} \ {"{", "}", ".", src, tgt}

\* C27: in the compiled text of an edge without predicates, the
\* intermediate-node and predicate variables of the chain of length k occur
\* in no chain of another length of the same edge and in no pattern of an
\* edge at another position.
C27_VariablesScoped ==
    LET h == args.edge.hops
        src == VarOf(args.edge.source_id)
        tgt == VarOf(args.edge.target_id)
        blocks == SplitAt(result.text, "UNION", <<>>)
    IN  (/\ args.fn = "_edge_pattern" /\ result # NoResult
         /\ Truthy(args.edge.predicates) = <<>> /\ h >= 1) =>
            \A k \in DOMAIN blocks :
                /\ \A k2 \in DOMAIN blocks :
                       k2 # k => ChainVars(blocks[k], src, tgt)
                                    \cap ChainVars(blocks[k2], src, tgt) = {}
                /\ \A idx \in (0..MaxEdgeIdx) \ {args.edge_idx} :
                       LET other == _edge_pattern(src, tgt, args.edge, idx).text
                       IN  ChainVars(blocks[k], src, tgt)
                               \cap {other[i] : i \in DOMAIN other} = {}

====
